---- MODULE Spec2Model ----
(***************************************************************************)
(* Model of kudu::master::Master (src/src/kudu/master/master.cc): the      *)
(* lifecycle state machine (Init / StartAsync / Start / Shutdown), the     *)
(* registration snapshot published behind an atomic flag, the one-shot     *)
(* catalog manager initialization run on the single-threaded init pool,    *)
(* ListMasters, and the leadership wait with its backoff.                  *)
(*                                                                         *)
(* Threads: one lifecycle thread (callers serialize Init, StartAsync,      *)
(* Start and Shutdown), the single worker of init_pool_, reader threads    *)
(* calling GetMasterRegistration, waiter threads calling                   *)
(* WaitForCatalogManagerInit, a caller of ListMasters and a caller of      *)
(* WaitUntilCatalogManagerIsLeaderAndReadyForTests.  A failed              *)
(* CHECK aborts the process: `aborted` is set and no action is enabled     *)
(* any more.                                                               *)
(***************************************************************************)
EXTENDS Integers, Sequences, FiniteSets, TLC

\* ------------------------------------------------------------------ bounds
NumReaders == 2
NumWaiters == 2
MaxPeers == 3
MaxUuid == 2
MaxTeardown == 2

\* The longest timeout, in milliseconds, a caller of the leadership wait passes.
MaxTimeout == 515

\* Timeouts within NearTimeout of 0 and of MaxTimeout are passed.
NearTimeout == 16

\* The most, in milliseconds, by which one iteration of the leadership wait
\* takes longer than the backoff it sleeps for.
MaxOvershoot == 1

Readers == 1..NumReaders
Waiters == 1..NumWaiters

\* ------------------------------------------------------------------ Status
OK == [code |-> "OK", msg |-> <<>>]

NoStatus == [code |-> "unset", msg |-> <<>>]

Failure(code, m) == [code |-> code, msg |-> <<m>>]

\* Status::CloneAndPrepend / RETURN_NOT_OK_PREPEND: same code, message prefixed.
CloneAndPrepend(s, prefix) == [code |-> s.code, msg |-> <<prefix>> \o s.msg]

ServiceUnavailable == Failure("ServiceUnavailable", "Master startup not complete")

IllegalStateAlreadyInit == Failure("IllegalState", "Catalog manager is already initialized")

\* ------------------------------------------------------- lifecycle states
kStopped == "kStopped"

kInitialized == "kInitialized"

kRunning == "kRunning"

ServiceNames == {"MasterServiceImpl", "ConsensusServiceImpl", "TabletCopyServiceImpl"}

\* ------------------------------------------------------------ registration
RegFields == <<"rpc_addresses", "http_addresses", "https_enabled", "software_version">>

\* A default-constructed ServerRegistrationPB.
EmptyReg ==
  [rpc_addresses |-> <<>>, http_addresses |-> <<>>,
   https_enabled |-> "unset", software_version |-> ""]

\* What a caller's output object holds before GetMasterRegistration writes it.
CallerReg ==
  [rpc_addresses |-> <<>>, http_addresses |-> <<>>,
   https_enabled |-> "unset", software_version |-> "caller"]

VersionInfo == "kudu-version"

\* Results GetAdvertisedAddresses may give for the RPC server.
RpcAddrChoices == {<<"rpc1", "rpc2">>}

HttpAddrChoices == {<<"http1">>}

VARIABLES
  state_,                    \* Master::state_
  web_server_,               \* whether the server has a web server
  pc,                        \* position of the lifecycle thread
  in_start,                  \* StartAsync was called from Start
  last,                      \* last lifecycle call that returned (see Return)
  aborted,                   \* "no", or the function whose CHECK failed
  maintenance_inited,        \* maintenance_manager_->Init succeeded
  services,                  \* RPC services currently registered
  server_started,            \* KuduServer::Start succeeded
  teardown,                  \* how often each Shutdown step has run
  reg,                       \* InitMasterRegistration's local `reg`
  built,                     \* the registration as assembled before the swap
  swap_idx,                  \* fields of registration_ swapped so far
  registration_,             \* Master::registration_
  registration_initialized_, \* Master::registration_initialized_
  task,                      \* InitCatalogManagerTask: none/queued/in_init/done
  seen_initialized,          \* what IsInitialized() told the task
  cm_init_calls,             \* calls of catalog_manager_->Init
  cm_init_ret,               \* what catalog_manager_->Init returned
  init_status_,              \* Promise<Status> init_status_ (NoStatus: unset)
  init_sets,                 \* calls of init_status_.Set
  w_pc, w_ret,               \* WaitForCatalogManagerInit callers
  r_pc, r_ret, r_out,        \* GetMasterRegistration callers
  ever_ok,                   \* some GetMasterRegistration has returned OK
  opts_,                     \* MasterOptions: [distributed, master_addresses]
  lm,                        \* the ListMasters call: what it met and what it gave
  poll                       \* the WaitUntilCatalogManagerIsLeaderAndReadyForTests call

lifecycle_vars ==
  <<state_, web_server_, pc, in_start, last, aborted, maintenance_inited, services,
    server_started, teardown, reg, built, swap_idx, registration_,
    registration_initialized_>>

worker_vars == <<task, seen_initialized, cm_init_calls, cm_init_ret, init_status_, init_sets>>

waiter_vars == <<w_pc, w_ret>>

reader_vars == <<r_pc, r_ret, r_out, ever_ok>>

vars == <<lifecycle_vars, worker_vars, waiter_vars, reader_vars, opts_, lm, poll>>

NoCall == [op |-> "none", inner |-> "none", from |-> kStopped, status |-> NoStatus]

NoTeardown == [unregister |-> 0, maintenance |-> 0, catalog |-> 0, generic |-> 0]

NoListMasters ==
  [status |-> NoStatus, prior |-> <<>>, outs |-> <<>>, masters |-> <<>>, queried |-> <<>>]

\* No WaitUntilCatalogManagerIsLeaderAndReadyForTests call has been made.
NoPoll ==
  [pc |-> "idle", timeout |-> 0, now |-> 0, backoff_ms |-> 0, samples |-> 0,
   s |-> OK, observed |-> NoStatus, ret |-> NoStatus]

\* The state after Master::Master(opts).
Constructed ==
  /\ state_ = kStopped
  /\ web_server_ \in BOOLEAN
  /\ pc = "idle"
  /\ in_start = FALSE
  /\ last = NoCall
  /\ aborted = "no"
  /\ maintenance_inited = FALSE
  /\ services = {}
  /\ server_started = FALSE
  /\ teardown = NoTeardown
  /\ reg = EmptyReg
  /\ built = EmptyReg
  /\ swap_idx = 0
  /\ registration_ = EmptyReg
  /\ registration_initialized_ = FALSE
  /\ task = "none"
  /\ seen_initialized = FALSE
  /\ cm_init_calls = 0
  /\ cm_init_ret = NoStatus
  /\ init_status_ = NoStatus
  /\ init_sets = 0
  /\ w_pc = [w \in Waiters |-> "idle"]
  /\ w_ret = [w \in Waiters |-> NoStatus]
  /\ r_pc = [r \in Readers |-> "idle"]
  /\ r_ret = [r \in Readers |-> NoStatus]
  /\ r_out = [r \in Readers |-> CallerReg]
  /\ ever_ok = FALSE
  /\ lm = NoListMasters
  /\ poll = NoPoll

\* Single-node deployment: opts_.IsDistributed() is false.
Init ==
  /\ Constructed
  /\ opts_ = [distributed |-> FALSE, master_addresses |-> <<>>]

\* The CHECK of function `check` failed.
Abort(check) ==
  /\ aborted' = check
  /\ UNCHANGED <<state_, web_server_, pc, in_start, last, maintenance_inited, services,
                 server_started, teardown, reg, built, swap_idx, registration_,
                 registration_initialized_>>

\* Lifecycle call `op`, entered with state_ = from, returns status s to its
\* caller; inner is the function the status comes from (Start returns what
\* StartAsync or WaitForCatalogManagerInit returned).
Return(op, inner, from, s) ==
  /\ pc' = "idle"
  /\ in_start' = FALSE
  /\ last' = [op |-> op, inner |-> inner, from |-> from, status |-> s]

OpName == IF in_start THEN "Start" ELSE "StartAsync"

\* ------------------------------------------------------------ Master::Init
InitSteps == {"init_pool", "KuduServer::Init", "path_handlers"}

\* path_handlers_->Register runs only with a web server.
InitFailures == {"none"} \cup
                (IF web_server_ THEN InitSteps ELSE InitSteps \ {"path_handlers"})

MasterInit(f) ==
  /\ aborted = "no" /\ pc = "idle"
  /\ IF state_ # kStopped
       THEN Abort("Init")
       ELSE /\ f \in InitFailures
            /\ IF f = "none"
                 THEN /\ state_' = kInitialized
                      /\ Return("Init", "Init", state_, OK)
                 ELSE /\ state_' = state_
                      /\ Return("Init", "Init", state_, Failure("RuntimeError", f))
            /\ UNCHANGED <<web_server_, aborted, maintenance_inited, services,
                           server_started, teardown, reg, built, swap_idx,
                           registration_, registration_initialized_>>
  /\ UNCHANGED <<worker_vars, waiter_vars, reader_vars, opts_, lm, poll>>

\* ------------------------------------------------------ Master::StartAsync
StartSteps ==
  <<"maintenance_manager", "MasterServiceImpl", "ConsensusServiceImpl",
    "TabletCopyServiceImpl", "KuduServer::Start">>

StartFailures == {"none"} \cup {StartSteps[i] : i \in 1..Len(StartSteps)}

\* The sub-steps that ran to completion when sub-step f failed.
StepsDone(f) ==
  {StartSteps[i] : i \in {j \in 1..Len(StartSteps) :
                            \A k \in 1..j : StartSteps[k] # f}}

\* Lines 157-168: maintenance manager, the three services, KuduServer::Start.
StartAsyncSteps(viaStart, f) ==
  /\ f \in StartFailures
  /\ maintenance_inited' = (maintenance_inited \/ "maintenance_manager" \in StepsDone(f))
  /\ services' = services \cup (StepsDone(f) \cap ServiceNames)
  /\ server_started' = (server_started \/ "KuduServer::Start" \in StepsDone(f))
  /\ IF f = "none"
       THEN /\ pc' = "imr"
            /\ in_start' = viaStart
            /\ last' = last
       ELSE Return(IF viaStart THEN "Start" ELSE "StartAsync", "StartAsync", state_,
                   Failure("RuntimeError", f))
  /\ UNCHANGED <<state_, web_server_, aborted, teardown, reg, built, swap_idx,
                 registration_, registration_initialized_>>

\* The same without CHECK_EQ(kInitialized, state_).
StartAsync_Unchecked(viaStart, f) ==
  /\ aborted = "no" /\ pc = "idle"
  /\ StartAsyncSteps(viaStart, f)
  /\ UNCHANGED <<worker_vars, waiter_vars, reader_vars, opts_, lm, poll>>

\* StartAsync up to and including KuduServer::Start; viaStart: called by Start.
StartAsync_Call(viaStart, f) ==
  /\ aborted = "no" /\ pc = "idle"
  /\ IF state_ # kInitialized
       THEN Abort("StartAsync")
       ELSE StartAsyncSteps(viaStart, f)
  /\ UNCHANGED <<worker_vars, waiter_vars, reader_vars, opts_, lm, poll>>

\* ------------------------------------------ Master::InitMasterRegistration
RegFailures == {"none", "rpc_addrs", "rpc_hostports"} \cup
               (IF web_server_ THEN {"http_addrs", "http_hostports"} ELSE {})

RegFailure(f) ==
  IF f = "rpc_addrs"
    THEN CloneAndPrepend(Failure("RuntimeError", f), "Couldn't get RPC addresses")
    ELSE Failure("RuntimeError", f)

\* Lines 254-266: the local `reg` as assembled from the servers' answers.
BuildReg(rpc, http, secure) ==
  [rpc_addresses |-> rpc,
   http_addresses |-> IF web_server_ THEN http ELSE <<>>,
   https_enabled |-> IF web_server_ THEN secure ELSE "unset",
   software_version |-> VersionInfo]

\* CHECK, then assemble `reg`; a failing sub-step returns through StartAsync.
InitMasterRegistration_Build(f, rpc, http, secure) ==
  /\ aborted = "no" /\ pc = "imr"
  /\ IF registration_initialized_
       THEN Abort("InitMasterRegistration")
       ELSE /\ f \in RegFailures
            /\ IF f = "none"
                 THEN /\ reg' = BuildReg(rpc, http, secure)
                      /\ built' = BuildReg(rpc, http, secure)
                      /\ swap_idx' = 0
                      /\ pc' = "swap"
                      /\ UNCHANGED <<in_start, last>>
                 ELSE /\ Return(OpName, "StartAsync", state_, RegFailure(f))
                      /\ UNCHANGED <<reg, built, swap_idx>>
            /\ UNCHANGED <<state_, web_server_, aborted, maintenance_inited, services,
                           server_started, teardown, registration_,
                           registration_initialized_>>
  /\ UNCHANGED <<worker_vars, waiter_vars, reader_vars, opts_, lm, poll>>

\* registration_.Swap(&reg) is not atomic: it exchanges one field at a time.
InitMasterRegistration_Swap ==
  /\ aborted = "no" /\ pc = "swap"
  /\ LET fld == RegFields[swap_idx + 1] IN
       /\ registration_' = [registration_ EXCEPT ![fld] = reg[fld]]
       /\ reg' = [reg EXCEPT ![fld] = registration_[fld]]
  /\ swap_idx' = swap_idx + 1
  /\ pc' = IF swap_idx + 1 = Len(RegFields) THEN "store" ELSE "swap"
  /\ UNCHANGED <<state_, web_server_, in_start, last, aborted, maintenance_inited,
                 services, server_started, teardown, built, registration_initialized_>>
  /\ UNCHANGED <<worker_vars, waiter_vars, reader_vars, opts_, lm, poll>>

\* InitMasterRegistration that swaps the registration in and never stores the flag.
InitMasterRegistration_Store_Omitted ==
  /\ aborted = "no" /\ pc = "store"
  /\ reg' = EmptyReg
  /\ pc' = "submit"
  /\ UNCHANGED <<state_, web_server_, in_start, last, aborted, maintenance_inited,
                 services, server_started, teardown, built, swap_idx, registration_,
                 registration_initialized_>>
  /\ UNCHANGED <<worker_vars, waiter_vars, reader_vars, opts_, lm, poll>>

\* registration_initialized_.store(true); `reg` goes out of scope.
InitMasterRegistration_Store ==
  /\ aborted = "no" /\ pc = "store"
  /\ registration_initialized_' = TRUE
  /\ reg' = EmptyReg
  /\ pc' = "submit"
  /\ UNCHANGED <<state_, web_server_, in_start, last, aborted, maintenance_inited,
                 services, server_started, teardown, built, swap_idx, registration_>>
  /\ UNCHANGED <<worker_vars, waiter_vars, reader_vars, opts_, lm, poll>>

\* StartAsync with `state_ = kRunning` moved above the SubmitClosure call.
StartAsync_Submit_RunningFirst(ok) ==
  /\ aborted = "no" /\ pc = "submit"
  /\ state_' = kRunning
  /\ IF ok
       THEN /\ task' = "queued"
            /\ pc' = "set_running"
            /\ UNCHANGED <<in_start, last>>
       ELSE /\ task' = task
            /\ Return(OpName, "StartAsync", state_,
                      Failure("ServiceUnavailable", "SubmitClosure"))
  /\ UNCHANGED <<web_server_, aborted, maintenance_inited, services,
                 server_started, teardown, reg, built, swap_idx, registration_,
                 registration_initialized_>>
  /\ UNCHANGED <<seen_initialized, cm_init_calls, cm_init_ret, init_status_, init_sets>>
  /\ UNCHANGED <<waiter_vars, reader_vars, opts_, lm, poll>>

\* init_pool_->SubmitClosure(InitCatalogManagerTask).
StartAsync_Submit(ok) ==
  /\ aborted = "no" /\ pc = "submit"
  /\ IF ok
       THEN /\ task' = "queued"
            /\ pc' = "set_running"
            /\ UNCHANGED <<in_start, last>>
       ELSE /\ task' = task
            /\ Return(OpName, "StartAsync", state_,
                      Failure("ServiceUnavailable", "SubmitClosure"))
  /\ UNCHANGED <<state_, web_server_, aborted, maintenance_inited, services,
                 server_started, teardown, reg, built, swap_idx, registration_,
                 registration_initialized_>>
  /\ UNCHANGED <<seen_initialized, cm_init_calls, cm_init_ret, init_status_, init_sets>>
  /\ UNCHANGED <<waiter_vars, reader_vars, opts_, lm, poll>>

\* state_ = kRunning; StartAsync returns OK (Start goes on to wait).
StartAsync_SetRunning ==
  /\ aborted = "no" /\ pc = "set_running"
  /\ state_' = kRunning
  /\ IF in_start
       THEN /\ pc' = "start_wait"
            /\ UNCHANGED <<in_start, last>>
       ELSE Return("StartAsync", "StartAsync", state_, OK)
  /\ UNCHANGED <<web_server_, aborted, maintenance_inited, services, server_started,
                 teardown, reg, built, swap_idx, registration_, registration_initialized_>>
  /\ UNCHANGED <<worker_vars, waiter_vars, reader_vars, opts_, lm, poll>>

\* Start that shuts the master down again when initialization failed.
Start_Wait_Rollback ==
  /\ aborted = "no" /\ pc = "start_wait"
  /\ init_status_ # NoStatus
  /\ Return("Start", "WaitForCatalogManagerInit", kInitialized, init_status_)
  /\ IF init_status_ = OK
       THEN UNCHANGED <<state_, services, teardown, maintenance_inited, server_started>>
       ELSE /\ state_' = kStopped
            /\ services' = {}
            /\ teardown' = [k \in DOMAIN teardown |-> teardown[k] + 1]
            /\ maintenance_inited' = FALSE
            /\ server_started' = FALSE
  /\ UNCHANGED <<web_server_, aborted, reg, built, swap_idx, registration_,
                 registration_initialized_>>
  /\ UNCHANGED <<worker_vars, waiter_vars, reader_vars, opts_, lm, poll>>

\* Start: WaitForCatalogManagerInit returns once init_status_ is set.
Start_Wait ==
  /\ aborted = "no" /\ pc = "start_wait"
  /\ IF state_ # kRunning
       THEN Abort("WaitForCatalogManagerInit")
       ELSE /\ init_status_ # NoStatus
            /\ Return("Start", "WaitForCatalogManagerInit", kInitialized, init_status_)
            /\ UNCHANGED <<state_, web_server_, aborted, maintenance_inited, services,
                           server_started, teardown, reg, built, swap_idx, registration_,
                           registration_initialized_>>
  /\ UNCHANGED <<worker_vars, waiter_vars, reader_vars, opts_, lm, poll>>

\* --------------------------------------------------------- Master::Shutdown
\* The teardown of lines 226-238.
Teardown ==
  /\ \A k \in DOMAIN teardown : teardown[k] < MaxTeardown
  /\ services' = {}
  /\ teardown' = [k \in DOMAIN teardown |-> teardown[k] + 1]
  /\ maintenance_inited' = FALSE
  /\ server_started' = FALSE

\* Shutdown with `state_ = kStopped` inside the `if`.
Shutdown_OnlyWhenRunning ==
  /\ aborted = "no" /\ pc = "idle"
  /\ IF state_ = kRunning
       THEN Teardown /\ state_' = kStopped
       ELSE UNCHANGED <<services, teardown, maintenance_inited, server_started, state_>>
  /\ Return("Shutdown", "Shutdown", state_, OK)
  /\ UNCHANGED <<web_server_, aborted, reg, built, swap_idx, registration_,
                 registration_initialized_>>
  /\ UNCHANGED <<worker_vars, waiter_vars, reader_vars, opts_, lm, poll>>

\* Shutdown without the test of state_.
Shutdown_NoStateTest ==
  /\ aborted = "no" /\ pc = "idle"
  /\ Teardown
  /\ state_' = kStopped
  /\ Return("Shutdown", "Shutdown", state_, OK)
  /\ UNCHANGED <<web_server_, aborted, reg, built, swap_idx, registration_,
                 registration_initialized_>>
  /\ UNCHANGED <<worker_vars, waiter_vars, reader_vars, opts_, lm, poll>>

Shutdown ==
  /\ aborted = "no" /\ pc = "idle"
  /\ IF state_ = kRunning
       THEN Teardown
       ELSE UNCHANGED <<services, teardown, maintenance_inited, server_started>>
  /\ state_' = kStopped
  /\ Return("Shutdown", "Shutdown", state_, OK)
  /\ UNCHANGED <<web_server_, aborted, reg, built, swap_idx, registration_,
                 registration_initialized_>>
  /\ UNCHANGED <<worker_vars, waiter_vars, reader_vars, opts_, lm, poll>>

\* ------------------------------------------- Master::InitCatalogManagerTask
EngineFailure == Failure("Corruption", "catalog manager Init failed")

\* init_status_.Set(s).
PromiseSet(s) ==
  /\ init_status_' = s
  /\ init_sets' = init_sets + 1

\* InitCatalogManager without the IsInitialized() test.
Task_Begin_NoTest(isInit) ==
  /\ aborted = "no" /\ task = "queued"
  /\ seen_initialized' = isInit
  /\ cm_init_calls' = cm_init_calls + 1
  /\ task' = "in_init"
  /\ UNCHANGED <<cm_init_ret, init_status_, init_sets>>
  /\ UNCHANGED <<lifecycle_vars, waiter_vars, reader_vars, opts_, lm, poll>>

\* The worker takes the closure: InitCatalogManager tests IsInitialized() (which
\* answers isInit) and either fails with IllegalState or enters
\* catalog_manager_->Init.
Task_Begin(isInit) ==
  /\ aborted = "no" /\ task = "queued"
  /\ seen_initialized' = isInit
  /\ IF isInit
       THEN /\ PromiseSet(IllegalStateAlreadyInit)
            /\ task' = "done"
            /\ UNCHANGED <<cm_init_calls, cm_init_ret>>
       ELSE /\ cm_init_calls' = cm_init_calls + 1
            /\ task' = "in_init"
            /\ UNCHANGED <<cm_init_ret, init_status_, init_sets>>
  /\ UNCHANGED <<lifecycle_vars, waiter_vars, reader_vars, opts_, lm, poll>>

\* A task that leaves the promise unset when catalog_manager_->Init fails.
Task_InitReturn_NoSetOnFailure(res) ==
  /\ aborted = "no" /\ task = "in_init"
  /\ cm_init_ret' = res
  /\ IF res = OK THEN PromiseSet(OK) ELSE UNCHANGED <<init_status_, init_sets>>
  /\ task' = "done"
  /\ UNCHANGED <<seen_initialized, cm_init_calls>>
  /\ UNCHANGED <<lifecycle_vars, waiter_vars, reader_vars, opts_, lm, poll>>

\* catalog_manager_->Init returns res; the task publishes the outcome.
Task_InitReturn(res) ==
  /\ aborted = "no" /\ task = "in_init"
  /\ cm_init_ret' = res
  /\ PromiseSet(IF res = OK
                  THEN OK
                  ELSE CloneAndPrepend(res, "Unable to initialize catalog manager"))
  /\ task' = "done"
  /\ UNCHANGED <<seen_initialized, cm_init_calls>>
  /\ UNCHANGED <<lifecycle_vars, waiter_vars, reader_vars, opts_, lm, poll>>

\* ---------------------------------------- Master::WaitForCatalogManagerInit
WaitForInit_Call(w) ==
  /\ aborted = "no" /\ w_pc[w] \in {"idle", "returned"}
  /\ IF state_ # kRunning
       THEN /\ aborted' = "WaitForCatalogManagerInit"
            /\ UNCHANGED <<w_pc, w_ret>>
       ELSE /\ w_pc' = [w_pc EXCEPT ![w] = "blocked"]
            /\ w_ret' = [w_ret EXCEPT ![w] = NoStatus]
            /\ UNCHANGED aborted
  /\ UNCHANGED <<state_, web_server_, pc, in_start, last, maintenance_inited, services,
                 server_started, teardown, reg, built, swap_idx, registration_,
                 registration_initialized_>>
  /\ UNCHANGED <<worker_vars, reader_vars, opts_, lm, poll>>

\* Promise::Get that hands back the slot without waiting for Set.
WaitForInit_Return_NoWait(w) ==
  /\ aborted = "no" /\ w_pc[w] = "blocked"
  /\ w_ret' = [w_ret EXCEPT ![w] = IF init_status_ = NoStatus THEN OK ELSE init_status_]
  /\ w_pc' = [w_pc EXCEPT ![w] = "returned"]
  /\ UNCHANGED <<lifecycle_vars, worker_vars, reader_vars, opts_, lm, poll>>

\* init_status_.Get(): blocks until the promise is set.
WaitForInit_Return(w) ==
  /\ aborted = "no" /\ w_pc[w] = "blocked"
  /\ init_status_ # NoStatus
  /\ w_ret' = [w_ret EXCEPT ![w] = init_status_]
  /\ w_pc' = [w_pc EXCEPT ![w] = "returned"]
  /\ UNCHANGED <<lifecycle_vars, worker_vars, reader_vars, opts_, lm, poll>>

\* ---------------------------------------------- Master::GetMasterRegistration
\* The call without the test of registration_initialized_.
GetMasterRegistration_Load_NoTest(r) ==
  /\ aborted = "no" /\ r_pc[r] \in {"idle", "done"}
  /\ r_out' = [r_out EXCEPT ![r] = CallerReg]
  /\ r_pc' = [r_pc EXCEPT ![r] = "copy"]
  /\ r_ret' = [r_ret EXCEPT ![r] = NoStatus]
  /\ UNCHANGED ever_ok
  /\ UNCHANGED <<lifecycle_vars, worker_vars, waiter_vars, opts_, lm, poll>>

\* The caller hands in its object; the flag is loaded (acquire).
GetMasterRegistration_Load(r) ==
  /\ aborted = "no" /\ r_pc[r] \in {"idle", "done"}
  /\ r_out' = [r_out EXCEPT ![r] = CallerReg]
  /\ IF ~registration_initialized_
       THEN /\ r_pc' = [r_pc EXCEPT ![r] = "done"]
            /\ r_ret' = [r_ret EXCEPT ![r] = ServiceUnavailable]
       ELSE /\ r_pc' = [r_pc EXCEPT ![r] = "copy"]
            /\ r_ret' = [r_ret EXCEPT ![r] = NoStatus]
  /\ UNCHANGED ever_ok
  /\ UNCHANGED <<lifecycle_vars, worker_vars, waiter_vars, opts_, lm, poll>>

\* reg->CopyFrom(registration_); return OK.
GetMasterRegistration_Copy(r) ==
  /\ aborted = "no" /\ r_pc[r] = "copy"
  /\ r_out' = [r_out EXCEPT ![r] = registration_]
  /\ r_ret' = [r_ret EXCEPT ![r] = OK]
  /\ r_pc' = [r_pc EXCEPT ![r] = "done"]
  /\ ever_ok' = TRUE
  /\ UNCHANGED <<lifecycle_vars, worker_vars, waiter_vars, opts_, lm, poll>>

\* ------------------------------------------------------ Master::ListMasters
\* The i-th address of --master_addresses.
Addr(i) == "host" \o ToString(i)

Roles == {"LEADER", "FOLLOWER"}

\* A default-constructed ServerEntryPB; uuid 0 is the empty permanent_uuid.
EmptyEntry ==
  [has_instance_id |-> FALSE, uuid |-> 0,
   has_registration |-> FALSE, registration |-> EmptyReg,
   has_role |-> FALSE, role |-> "UNKNOWN_ROLE",
   has_error |-> FALSE, error |-> NoStatus]

\* An entry the caller's vector already holds when it calls ListMasters.
PriorEntry == [EmptyEntry EXCEPT !.has_instance_id = TRUE, !.uuid = MaxUuid + 1]

\* catalog_manager_->NodeInstance().permanent_uuid()
LocalUuid == 1

\* The registration the peer with identity u answers with.
PeerReg(u) ==
  [rpc_addresses |-> <<"peer" \o ToString(u)>>, http_addresses |-> <<>>,
   https_enabled |-> "unset", software_version |-> VersionInfo]

\* What can happen to the registration RPC sent to one configured address.
Outcomes ==
  {[kind |-> "resolve_fail", uuid |-> 0, role |-> "UNKNOWN_ROLE"],
   [kind |-> "rpc_fail", uuid |-> 0, role |-> "UNKNOWN_ROLE"]}
  \cup [kind : {"app_error"}, uuid : 1..MaxUuid, role : {"UNKNOWN_ROLE"}]
  \cup [kind : {"ok"}, uuid : 1..MaxUuid, role : Roles]

\* GetMasterEntryForHost(messenger, hostport, e): [status, e].
GetMasterEntryForHost(o, e) ==
  IF o.kind = "resolve_fail"
    THEN [status |-> Failure("NetworkError", "unable to resolve address"), e |-> e]
  ELSE IF o.kind = "rpc_fail"
    THEN [status |-> Failure("TimedOut", "GetMasterRegistration RPC"), e |-> e]
  ELSE LET e1 == [e EXCEPT !.has_instance_id = TRUE, !.uuid = o.uuid] IN
    IF o.kind = "app_error"
      THEN [status |-> Failure("ServiceUnavailable", "catalog manager not initialized"),
            e |-> e1]
      ELSE [status |-> OK,
            e |-> [e1 EXCEPT !.has_registration = TRUE, !.registration = PeerReg(o.uuid),
                             !.has_role = TRUE, !.role = o.role]]

\* Lines 318-326: the entry ListMasters makes for one peer address.
PeerEntry(addr, o) ==
  LET got == GetMasterEntryForHost(o, EmptyEntry) IN
    IF got.status = OK
      THEN got.e
      ELSE [got.e EXCEPT
              !.has_error = TRUE,
              !.error = CloneAndPrepend(got.status,
                          "Unable to get registration information for peer (" \o addr \o ")")]

\* An insertion that replaces the entry already held for the same uuid.
InsertIfNotPresent_Overwrite(set, e) ==
  {x \in set : x.uuid # e.uuid} \cup {e}

\* InsertIfNotPresent into the std::set ordered by uuid_cmp.
InsertIfNotPresent(set, e) ==
  IF \E x \in set : x.uuid = e.uuid THEN set ELSE set \cup {e}

\* The loop with RETURN_NOT_OK around GetMasterEntryForHost.
RECURSIVE PeerLoop_ReturnNotOk(_, _, _, _)
PeerLoop_ReturnNotOk(addrs, outs, i, acc) ==
  IF i > Len(addrs)
    THEN acc
    ELSE IF GetMasterEntryForHost(outs[i], EmptyEntry).status # OK
      THEN [set |-> {}, queried |-> Append(acc.queried, addrs[i]),
            status |-> GetMasterEntryForHost(outs[i], EmptyEntry).status]
      ELSE PeerLoop_ReturnNotOk(addrs, outs, i + 1,
                  [set |-> InsertIfNotPresent(acc.set, PeerEntry(addrs[i], outs[i])),
                   queried |-> Append(acc.queried, addrs[i]),
                   status |-> OK])

\* The loop of lines 317-328 from master_addresses[i] on; acc holds the set built
\* so far and the addresses an RPC went to.
RECURSIVE PeerLoop(_, _, _, _)
PeerLoop(addrs, outs, i, acc) ==
  IF i > Len(addrs)
    THEN acc
    ELSE PeerLoop(addrs, outs, i + 1,
                  [set |-> InsertIfNotPresent(acc.set, PeerEntry(addrs[i], outs[i])),
                   queried |-> Append(acc.queried, addrs[i]),
                   status |-> OK])

\* Lines 316-328: the deduplicated set for the configured addresses.
MastersByUuid(addrs, outs) ==
  PeerLoop(addrs, outs, 1, [set |-> {}, queried |-> <<>>, status |-> OK])

\* Iteration of the std::set: ascending permanent_uuid.
RECURSIVE InUuidOrder(_)
InUuidOrder(set) ==
  IF set = {}
    THEN <<>>
    ELSE LET m == CHOOSE x \in set : \A y \in set : x.uuid <= y.uuid
         IN <<m>> \o InUuidOrder(set \ {m})

\* A ListMasters whose single-node path does not test the status of
\* GetMasterRegistration.
ListMasters_NoStatusTest(prior, outs) ==
  /\ aborted = "no"
  /\ ~opts_.distributed
  /\ outs = <<>>
  /\ lm' = [status |-> OK, prior |-> prior, outs |-> outs,
            masters |-> Append(prior,
              [EmptyEntry EXCEPT
                 !.has_instance_id = TRUE, !.uuid = LocalUuid,
                 !.has_registration = TRUE, !.registration = registration_,
                 !.has_role = TRUE, !.role = "LEADER"]),
            queried |-> <<>>]
  /\ UNCHANGED <<lifecycle_vars, worker_vars, waiter_vars, reader_vars, opts_, poll>>

\* ListMasters(&masters): prior is what the caller's vector holds, outs[i] what
\* happens to the RPC to master_addresses[i].
ListMasters(prior, outs) ==
  /\ aborted = "no"
  /\ IF ~opts_.distributed
       THEN /\ outs = <<>>
            /\ IF ~registration_initialized_
                 THEN lm' = [status |-> ServiceUnavailable, prior |-> prior,
                             outs |-> outs, masters |-> prior, queried |-> <<>>]
                 ELSE lm' = [status |-> OK, prior |-> prior, outs |-> outs,
                             masters |-> Append(prior,
                               [EmptyEntry EXCEPT
                                  !.has_instance_id = TRUE, !.uuid = LocalUuid,
                                  !.has_registration = TRUE, !.registration = registration_,
                                  !.has_role = TRUE, !.role = "LEADER"]),
                             queried |-> <<>>]
       ELSE /\ outs \in [1..Len(opts_.master_addresses) -> Outcomes]
            /\ LET got == MastersByUuid(opts_.master_addresses, outs) IN
                 lm' = [status |-> got.status, prior |-> prior, outs |-> outs,
                        masters |-> prior \o InUuidOrder(got.set),
                        queried |-> got.queried]
  /\ UNCHANGED <<lifecycle_vars, worker_vars, waiter_vars, reader_vars, opts_, poll>>

\* --------------------- Master::WaitUntilCatalogManagerIsLeaderAndReadyForTests
\* const int kMaxBackoffMs = 256;
kMaxBackoffMs == 256

\* The timeouts a caller passes, in milliseconds: the short ones, which end
\* within the first backoffs, and long ones, which reach the capped backoff.
Timeouts == (0..NearTimeout) \cup ((MaxTimeout - NearTimeout)..MaxTimeout)

\* What l.first_failed_status() may be for one ScopedLeaderSharedLock.
NotInitialized == Failure("ServiceUnavailable", "Catalog manager is not initialized")

NotLeader == Failure("IllegalState", "Not the leader")

SampleStatuses == {OK, NotInitialized, NotLeader}

\* Status::ToString.
StatusToString(s) == IF s.code = "OK" THEN "OK" ELSE s.code \o ": " \o s.msg[1]

\* Status::TimedOut(msg, msg2).
TimedOut(m, m2) == [code |-> "TimedOut", msg |-> <<m, m2>>]

\* Lines 206-209: `Status s;`, start = MonoTime::Now(), backoff_ms = 1.  now is
\* the time since start.
Poll_Call(timeout) ==
  /\ aborted = "no"
  /\ poll.pc = "idle"
  /\ poll' = [pc |-> "sample", timeout |-> timeout, now |-> 0, backoff_ms |-> 1,
              samples |-> 0, s |-> OK, observed |-> NoStatus, ret |-> NoStatus]
  /\ UNCHANGED <<lifecycle_vars, worker_vars, waiter_vars, reader_vars, opts_, lm>>

\* Lines 211-216: one ScopedLeaderSharedLock, whose first_failed_status is st.
Poll_Sample(st) ==
  /\ aborted = "no"
  /\ poll.pc = "sample"
  /\ IF st = OK
       THEN poll' = [poll EXCEPT !.samples = @ + 1, !.observed = st,
                                 !.ret = OK, !.pc = "done"]
       ELSE poll' = [poll EXCEPT !.samples = @ + 1, !.observed = st, !.pc = "sleep"]
  /\ UNCHANGED <<lifecycle_vars, worker_vars, waiter_vars, reader_vars, opts_, lm>>

\* A sleep that leaves backoff_ms as it is.
Poll_Sleep_NoDoubling(extra) ==
  /\ aborted = "no"
  /\ poll.pc = "sleep"
  /\ poll' = [poll EXCEPT !.now = @ + poll.backoff_ms + extra, !.pc = "test"]
  /\ UNCHANGED <<lifecycle_vars, worker_vars, waiter_vars, reader_vars, opts_, lm>>

\* Lines 217-218: SleepFor(backoff_ms), which returns after backoff_ms or later
\* (extra is what the thread overslept, and what the next lock takes), then
\* backoff_ms = min(backoff_ms << 1, kMaxBackoffMs).
Poll_Sleep(extra) ==
  /\ aborted = "no"
  /\ poll.pc = "sleep"
  /\ poll' = [poll EXCEPT
                !.now = @ + poll.backoff_ms + extra,
                !.backoff_ms = IF 2 * @ < kMaxBackoffMs THEN 2 * @ ELSE kMaxBackoffMs,
                !.pc = "test"]
  /\ UNCHANGED <<lifecycle_vars, worker_vars, waiter_vars, reader_vars, opts_, lm>>

\* A loop condition that still holds at the deadline.
Poll_Test_AtDeadline ==
  /\ aborted = "no"
  /\ poll.pc = "test"
  /\ IF poll.now <= poll.timeout
       THEN poll' = [poll EXCEPT !.pc = "sample"]
       ELSE poll' = [poll EXCEPT
                       !.ret = TimedOut("Maximum time exceeded waiting for master leadership",
                                        StatusToString(poll.s)),
                       !.pc = "done"]
  /\ UNCHANGED <<lifecycle_vars, worker_vars, waiter_vars, reader_vars, opts_, lm>>

\* Lines 219-221: while (MonoTime::Now() < (start + timeout)), and after the
\* loop the TimedOut status made from the local s, which nothing assigns.
Poll_Test ==
  /\ aborted = "no"
  /\ poll.pc = "test"
  /\ IF poll.now < poll.timeout
       THEN poll' = [poll EXCEPT !.pc = "sample"]
       ELSE poll' = [poll EXCEPT
                       !.ret = TimedOut("Maximum time exceeded waiting for master leadership",
                                        StatusToString(poll.s)),
                       !.pc = "done"]
  /\ UNCHANGED <<lifecycle_vars, worker_vars, waiter_vars, reader_vars, opts_, lm>>

\* ------------------------------------------------------------ specifications
LifecycleNext ==
  \/ \E f \in {"none"} \cup InitSteps : MasterInit(f)
  \/ \E viaStart \in BOOLEAN, f \in StartFailures : StartAsync_Call(viaStart, f)
  \/ \E f \in {"none", "rpc_addrs", "rpc_hostports", "http_addrs", "http_hostports"},
        rpc \in RpcAddrChoices, http \in HttpAddrChoices, secure \in {"true", "false"} :
       InitMasterRegistration_Build(f, rpc, http, secure)
  \/ InitMasterRegistration_Swap
  \/ InitMasterRegistration_Store
  \/ \E ok \in BOOLEAN : StartAsync_Submit(ok)
  \/ StartAsync_SetRunning
  \/ Start_Wait
  \/ Shutdown

WorkerNext ==
  \/ \E isInit \in BOOLEAN : Task_Begin(isInit)
  \/ \E res \in {OK, EngineFailure} : Task_InitReturn(res)

WaiterNext ==
  \E w \in Waiters : WaitForInit_Call(w) \/ WaitForInit_Return(w)

ReaderNext ==
  \E r \in Readers : GetMasterRegistration_Load(r) \/ GetMasterRegistration_Copy(r)

ListNext ==
  \E prior \in {<<>>, <<PriorEntry>>} :
    \E outs \in [1..Len(opts_.master_addresses) -> Outcomes] : ListMasters(prior, outs)

\* The lifecycle thread, the init worker and the registration readers.
Next == LifecycleNext \/ WorkerNext \/ ReaderNext

Spec == Init /\ [][Next]_vars

\* The lifecycle thread, the init worker and the callers of WaitForCatalogManagerInit.
NextWait == LifecycleNext \/ WorkerNext \/ WaiterNext

SpecWait == Init /\ [][NextWait]_vars

\* Multi-node deployment: --master_addresses names up to MaxPeers peers.
InitLM ==
  /\ Constructed
  /\ ~web_server_
  /\ \E n \in 1..MaxPeers :
       opts_ = [distributed |-> TRUE, master_addresses |-> [i \in 1..n |-> Addr(i)]]

\* ListMasters reads nothing it writes: one call per behaviour shows every result.
NextLM == lm = NoListMasters /\ ListNext

SpecLM == InitLM /\ [][NextLM]_vars

\* Single-node deployment: the lifecycle thread, the init worker and a caller
\* of ListMasters.
NextLocal == LifecycleNext \/ WorkerNext \/ ListNext

SpecLocal == Init /\ [][NextLocal]_vars

\* A caller of WaitUntilCatalogManagerIsLeaderAndReadyForTests.
NextPoll ==
  \/ \E timeout \in Timeouts : Poll_Call(timeout)
  \/ \E st \in SampleStatuses : Poll_Sample(st)
  \/ \E extra \in 0..MaxOvershoot : Poll_Sleep(extra)
  \/ Poll_Test

InitPoll == Init /\ ~web_server_

SpecPoll == InitPoll /\ [][NextPoll]_vars

\* SpecWait with the scheduling the code relies on: the one worker of init_pool_
\* runs a submitted closure, catalog_manager_->Init returns, and a thread in
\* Promise::Get is woken once the promise is set.
SpecWaitFair ==
  /\ SpecWait
  /\ WF_vars(WorkerNext)
  /\ \A w \in Waiters : WF_vars(WaitForInit_Return(w))

\* ------------------------------------------------------------------- claims

\* What holds of every GetMasterRegistration caller in every state.
C1_Readers ==
  \A r \in Readers :
    /\ r_pc[r] = "copy" => registration_initialized_
    /\ r_pc[r] = "done" => r_ret[r] \in {OK, ServiceUnavailable}
    /\ r_pc[r] = "done" /\ r_ret[r] = ServiceUnavailable => r_out[r] = CallerReg
    /\ r_pc[r] = "done" /\ r_ret[r] = OK =>
         /\ r_out[r] = built
         /\ built.software_version = VersionInfo
         /\ built.rpc_addresses \in RpcAddrChoices
         /\ web_server_ => built.http_addresses \in HttpAddrChoices
                           /\ built.https_enabled \in {"true", "false"}

\* What holds of every step a GetMasterRegistration caller takes.
C1_Step ==
  /\ ever_ok => ever_ok' /\ registration_initialized_'
  /\ \A r \in Readers :
       /\ GetMasterRegistration_Load(r) /\ ~registration_initialized_ =>
            r_pc'[r] = "done" /\ r_ret'[r] = ServiceUnavailable /\ r_out'[r] = CallerReg
       /\ GetMasterRegistration_Load(r) /\ (ever_ok \/ registration_initialized_) =>
            r_pc'[r] = "copy"
       /\ GetMasterRegistration_Copy(r) => r_ret'[r] = OK /\ r_out'[r] = built

\* C1: with readers racing InitMasterRegistration, a GetMasterRegistration that
\* finds the flag unset returns ServiceUnavailable and leaves the caller's
\* object as it was; one that finds the flag set returns a copy equal to the
\* fully built registration; and once a call has succeeded every later call
\* succeeds, also after Shutdown.
C1_GetRegistration == []C1_Readers /\ [][C1_Step]_vars

\* One reader was turned away before the flag was set, another got the built
\* registration, and the master has been shut down since.
C1_Witness ==
  /\ state_ = kStopped /\ last.op = "Shutdown" /\ last.from = kRunning
  /\ \E r1, r2 \in Readers :
       /\ r_pc[r1] = "done" /\ r_ret[r1] = ServiceUnavailable
       /\ r_pc[r2] = "done" /\ r_ret[r2] = OK /\ r_out[r2] = built

InitStep == \E f \in {"none"} \cup InitSteps : MasterInit(f)

ThreeTransitions ==
  \/ state_ = kStopped /\ state_' = kInitialized /\ InitStep
  \/ state_ = kInitialized /\ state_' = kRunning /\ StartAsync_SetRunning
  \/ state_ = kRunning /\ state_' = kStopped /\ Shutdown

\* C2 as stated: state_ changes only by Stopped->Initialized (Init),
\* Initialized->Running (StartAsync) and Running->Stopped (Shutdown), and a
\* Shutdown in a state other than Running leaves state_ unchanged.
C2_AsStated ==
  [][/\ state_' # state_ => ThreeTransitions
     /\ Shutdown /\ state_ # kRunning => state_' = state_]_vars

\* C2, amended: state_ changes only by those three transitions and by
\* Initialized->Stopped (Shutdown); every Shutdown ends with state_ = kStopped,
\* and a Shutdown in a state other than Running runs no teardown step.
C2_Transitions ==
  [][/\ state_' # state_ =>
          \/ ThreeTransitions
          \/ state_ = kInitialized /\ state_' = kStopped /\ Shutdown
     /\ Shutdown =>
          /\ state_' = kStopped
          /\ state_ # kRunning =>
               UNCHANGED <<teardown, services, maintenance_inited, server_started>>]_vars

\* Shutdown was called on an initialized master that never ran.
C2_Witness ==
  /\ last.op = "Shutdown" /\ last.from = kInitialized
  /\ state_ = kStopped /\ teardown = NoTeardown

\* C3: a StartAsync called while state_ is not kInitialized dies on its CHECK
\* before any startup step: nothing else changes; and no step registers a
\* service, starts a subsystem, builds the registration or submits the init
\* task unless StartAsync found state_ = kInitialized.
C3_StartAsyncPrecondition ==
  [][/\ \A viaStart \in BOOLEAN, f \in StartFailures :
          StartAsync_Call(viaStart, f) /\ state_ # kInitialized =>
            /\ aborted' = "StartAsync"
            /\ UNCHANGED <<state_, pc, last, services, maintenance_inited, server_started,
                           reg, built, registration_, registration_initialized_, task,
                           init_status_>>
     /\ \/ services' \ services # {}
        \/ maintenance_inited' /\ ~maintenance_inited
        \/ server_started' /\ ~server_started
        \/ registration_' # registration_
        \/ registration_initialized_' # registration_initialized_
        \/ task' = "queued" /\ task # "queued"
        => state_ = kInitialized]_vars

\* StartAsync was called a second time, on a running master.
C3_Witness ==
  /\ aborted = "StartAsync" /\ state_ = kRunning
  /\ last.op = "StartAsync" /\ last.status = OK

\* C4: when Init returns a failure state_ is still kStopped, and when
\* StartAsync returns a failure (to its caller or to Start) state_ is still
\* kInitialized.
C4_FailureKeepsState ==
  pc = "idle" /\ last.status \notin {OK, NoStatus} =>
    /\ last.inner = "Init" => state_ = kStopped /\ last.from = kStopped
    /\ last.inner = "StartAsync" => state_ = kInitialized /\ last.from = kInitialized

\* StartAsync failed at its last sub-step, SubmitClosure, after the
\* registration was published.
C4_Witness ==
  /\ pc = "idle" /\ last.inner = "StartAsync"
  /\ last.status = Failure("ServiceUnavailable", "SubmitClosure")
  /\ registration_initialized_ /\ state_ = kInitialized

\* C5: every Shutdown returns without error and leaves state_ = kStopped; a
\* Shutdown of a running master runs each teardown step once, a Shutdown of a
\* stopped one runs none, so that no teardown step ever runs twice.
C5_ShutdownIdempotent ==
  /\ [](\A k \in DOMAIN teardown : teardown[k] <= 1)
  /\ [][Shutdown =>
          /\ state_' = kStopped /\ aborted' = "no" /\ last'.status = OK
          /\ IF state_ = kRunning
               THEN \A k \in DOMAIN teardown : teardown'[k] = teardown[k] + 1
               ELSE UNCHANGED <<teardown, services, maintenance_inited, server_started>>]_vars

\* Shutdown was called on the master it had already stopped.
C5_Witness ==
  /\ last.op = "Shutdown" /\ last.from = kStopped /\ state_ = kStopped
  /\ \A k \in DOMAIN teardown : teardown[k] = 1

\* C6 as stated: once a running master has been shut down, state_ is kStopped
\* for good: no Init, StartAsync or Start moves it to kInitialized or kRunning.
C6_StoppedIsTerminal == teardown.generic > 0 => state_ = kStopped

\* What holds of init_status_ and of every WaitForCatalogManagerInit caller.
C7_Waiters ==
  /\ init_sets <= 1
  /\ init_status_ # NoStatus <=> init_sets = 1
  /\ \A w \in Waiters :
       w_pc[w] = "returned" => w_ret[w] # NoStatus /\ w_ret[w] = init_status_
  /\ pc = "idle" /\ last.inner = "WaitForCatalogManagerInit" => last.status = init_status_

\* What holds of every step that writes init_status_ or belongs to a waiter.
C7_Step ==
  /\ init_status_' # init_status_ =>
       /\ init_status_ = NoStatus
       /\ task \in {"queued", "in_init"} /\ task' = "done"
       /\ \/ \E isInit \in BOOLEAN : Task_Begin(isInit)
          \/ \E res \in {OK, EngineFailure} : Task_InitReturn(res)
  /\ \A w \in Waiters :
       WaitForInit_Call(w) \/ WaitForInit_Return(w) =>
         UNCHANGED <<task, cm_init_calls, init_status_, init_sets>>

\* C7: init_status_ is set at most once, by the init task alone; every
\* WaitForCatalogManagerInit that returns, on any thread, returns the value
\* set; and no step of a waiter calls catalog manager initialization.
C7_OneShotInitResult == []C7_Waiters /\ [][C7_Step]_vars

\* All waiters have returned the failure the task set; the master has since
\* been shut down and initialized again.
C7_Witness ==
  /\ init_status_.code = "Corruption"
  /\ \A w \in Waiters : w_pc[w] = "returned" /\ w_ret[w] = init_status_
  /\ teardown.generic = 1 /\ state_ = kInitialized

\* C8: the init task that finds IsInitialized() true does not call
\* catalog_manager_->Init and sets IllegalState; otherwise it calls Init once
\* and sets OK exactly when Init returned OK, and Init's failure, prefixed,
\* when it failed.
C8_InitTaskResult ==
  /\ task = "in_init" => ~seen_initialized /\ cm_init_calls = 1 /\ init_status_ = NoStatus
  /\ task = "done" =>
       IF seen_initialized
         THEN /\ cm_init_calls = 0
              /\ init_status_.code = "IllegalState"
         ELSE /\ cm_init_calls = 1
              /\ init_status_ = OK <=> cm_init_ret = OK
              /\ cm_init_ret # OK =>
                   /\ init_status_.code = cm_init_ret.code
                   /\ init_status_.msg =
                        <<"Unable to initialize catalog manager">> \o cm_init_ret.msg

\* The task found the catalog manager initialized already.
C8_Witness ==
  task = "done" /\ seen_initialized /\ init_status_.code = "IllegalState"

\* Start has returned the failure of the init task.
StartFailedInInit ==
  /\ pc = "idle" /\ last.op = "Start" /\ last.inner = "WaitForCatalogManagerInit"
  /\ last.status # OK

\* What holds once Start has returned.
C9_AfterStart ==
  /\ StartFailedInInit =>
       /\ last.status = init_status_
       /\ state_ = kRunning
       /\ teardown = NoTeardown
       /\ services = ServiceNames /\ maintenance_inited /\ server_started
       /\ registration_initialized_ /\ registration_ = built
  /\ pc = "idle" /\ last.op = "Start" /\ last.inner = "StartAsync" => last.status # OK
  /\ pc = "idle" /\ last.op = "Start" /\ last.status = OK => init_status_ = OK

\* C9: when StartAsync succeeded and the init task failed, Start returns the
\* task's failure, state_ stays kRunning, no teardown step has run, and
\* GetMasterRegistration goes on to succeed.
C9_NoRollback ==
  /\ []C9_AfterStart
  /\ [][\A r \in Readers :
          StartFailedInInit /\ GetMasterRegistration_Load(r) => r_pc'[r] = "copy"]_vars

\* Start has failed in the init task and a reader has its copy.
C9_Witness ==
  /\ StartFailedInInit /\ last.status.code = "Corruption" /\ state_ = kRunning
  /\ \E r \in Readers : r_pc[r] = "done" /\ r_ret[r] = OK /\ r_out[r] = built

\* The entries ListMasters appended to the caller's vector.
Appended == {lm.masters[i] : i \in (Len(lm.prior) + 1)..Len(lm.masters)}

\* C10: multi-node ListMasters returns OK whatever each peer's RPC met; it
\* queries every configured address; and every entry it appends carries either
\* an error and neither registration nor role (a failed peer) or a
\* registration and a role and no error (a peer that answered).
C10_ListMastersIsolatesFailures ==
  lm.status # NoStatus =>
    /\ lm.status = OK
    /\ lm.queried = opts_.master_addresses
    /\ \A e \in Appended :
         /\ \/ e.has_error /\ e.error.code \notin {"OK", "unset"}
               /\ ~e.has_registration /\ ~e.has_role
            \/ ~e.has_error /\ e.has_registration /\ e.has_role
         /\ \E i \in DOMAIN lm.outs :
              /\ lm.outs[i].uuid = e.uuid
              /\ e.has_error <=> lm.outs[i].kind # "ok"

\* Three peers: the first does not resolve, the second answers with an error,
\* the third answers; all three are in the result.
C10_Witness ==
  /\ lm.status = OK /\ Len(lm.outs) = 3
  /\ lm.outs[1].kind = "resolve_fail" /\ lm.outs[2].kind = "app_error"
  /\ lm.outs[3].kind = "ok"
  /\ Cardinality(Appended) = 3

\* The first configured address whose RPC outcome carries the identity u
\* (0, the empty identity, for a peer that reported none).
FirstYielding(u) ==
  CHOOSE a \in DOMAIN lm.outs :
    lm.outs[a].uuid = u /\ \A b \in 1..(a - 1) : lm.outs[b].uuid # u

\* C11: in multi-node mode the appended entries are in strictly ascending order
\* of identity (so no two share one), every identity some address yielded has
\* an entry, and the entry kept for an identity is the one made for the first
\* configured address that yielded it: its error names that address, and its
\* role is the role that address's peer reported.
C11_DedupKeepsFirstInOrder ==
  lm.status # NoStatus =>
    /\ \A i, j \in (Len(lm.prior) + 1)..Len(lm.masters) :
         i < j => lm.masters[i].uuid < lm.masters[j].uuid
    /\ {e.uuid : e \in Appended} = {lm.outs[a].uuid : a \in DOMAIN lm.outs}
    /\ \A e \in Appended :
         LET a == FirstYielding(e.uuid) IN
           /\ e.has_error <=> lm.outs[a].kind # "ok"
           /\ e.has_error =>
                e.error.msg[1] =
                  "Unable to get registration information for peer (" \o Addr(a) \o ")"
           /\ e.has_role <=> lm.outs[a].kind = "ok"
           /\ e.has_role => e.role = lm.outs[a].role
           /\ e.has_instance_id <=> lm.outs[a].kind \in {"ok", "app_error"}

\* Three addresses: the first and the third reach the peer with identity 2, which
\* reports two different roles; the second reaches peer 1.  Two entries are
\* appended, peer 1's first, and peer 2's carries the role the first address got.
C11_Witness ==
  /\ lm.status = OK /\ Len(lm.outs) = 3
  /\ lm.outs[1] = [kind |-> "ok", uuid |-> 2, role |-> "FOLLOWER"]
  /\ lm.outs[2].kind = "ok" /\ lm.outs[2].uuid = 1
  /\ lm.outs[3] = [kind |-> "ok", uuid |-> 2, role |-> "LEADER"]
  /\ Len(lm.masters) = Len(lm.prior) + 2
  /\ lm.masters[Len(lm.prior) + 1].uuid = 1
  /\ lm.masters[Len(lm.prior) + 2].role = "FOLLOWER"

\* C12: in single-node mode a ListMasters call made while the registration is
\* not yet published returns ServiceUnavailable and leaves the caller's vector
\* as it was; a call made once it is published returns OK and appends exactly
\* one entry, with the local node's identity, the registration that was built
\* and the role LEADER, and sends no RPC to any address.
C12_SingleNodeListMasters ==
  [][\A prior \in {<<>>, <<PriorEntry>>} :
       ListMasters(prior, <<>>) /\ ~opts_.distributed =>
         IF ~registration_initialized_
           THEN lm'.status.code = "ServiceUnavailable" /\ lm'.masters = prior
           ELSE /\ lm'.status = OK
                /\ Len(lm'.masters) = Len(prior) + 1
                /\ SubSeq(lm'.masters, 1, Len(prior)) = prior
                /\ LET e == lm'.masters[Len(prior) + 1] IN
                     /\ e.has_instance_id /\ e.uuid = LocalUuid
                     /\ e.has_registration /\ e.registration = built
                     /\ e.has_role /\ e.role = "LEADER"
                     /\ ~e.has_error
                /\ lm'.queried = <<>>]_vars

\* The node is running and a ListMasters call on a vector that held one entry
\* has appended the local entry with the built registration.
C12_Witness ==
  /\ ~opts_.distributed /\ state_ = kRunning /\ registration_initialized_
  /\ lm.status = OK /\ lm.prior = <<PriorEntry>> /\ Len(lm.masters) = 2
  /\ lm.masters[2].uuid = LocalUuid /\ lm.masters[2].registration = built
  /\ lm.masters[2].role = "LEADER" /\ lm.queried = <<>>

\* The i-th backoff of the claim, i counted from 0: min(2^i, 256).
Backoff(i) == IF 2 ^ i < 256 THEN 2 ^ i ELSE 256

\* The cumulative backoff before sample k+1: the sum over i < k of min(2^i, 256).
RECURSIVE SumBackoff(_)
SumBackoff(k) == IF k = 0 THEN 0 ELSE SumBackoff(k - 1) + Backoff(k - 1)

\* The sleeps the wait has finished.
Sleeps == IF poll.pc \in {"sleep", "idle"} \/ poll.ret = OK
            THEN IF poll.samples = 0 THEN 0 ELSE poll.samples - 1
            ELSE poll.samples

\* What both readings of C13 share: the backoff starts at 1 and doubles up to
\* 256, and a wait whose first sample fails under a timeout shorter than the
\* first backoff returns TimedOut after that one sample.
C13_BackoffAndShortTimeout ==
  /\ poll.pc \notin {"idle", "done"} => poll.backoff_ms = Backoff(Sleeps)
  /\ poll.pc = "done" /\ poll.timeout < Backoff(0) /\ poll.observed # OK =>
       poll.ret.code = "TimedOut" /\ poll.samples = 1

\* C13 as the claim states it.  A wait that returns TimedOut has taken j samples,
\* all failed, which is what a source failing for its first j samples shows; so
\* "OK whenever the timeout is longer than the cumulative backoff before sample
\* k+1" says that a wait returns TimedOut after j samples only under a timeout
\* of at most SumBackoff(j).
C13_AsStated ==
  /\ C13_BackoffAndShortTimeout
  /\ poll.pc = "done" /\ poll.ret.code = "TimedOut" =>
       poll.timeout <= SumBackoff(poll.samples)

\* C13, amended: the backoff starts at 1 and doubles up to 256; the time that
\* has passed when the loop condition is evaluated after the k-th sleep is at
\* least the cumulative backoff, and is the cumulative backoff when no
\* iteration takes longer than its sleep; a wait returns TimedOut only when
\* that time has reached the timeout and every sample failed, so it returns OK
\* for a source succeeding from sample k+1 on whenever the timeout is longer
\* than the time passed, and returns OK only on a sample that succeeded; with
\* a timeout shorter than the first backoff and a failing first sample it
\* returns TimedOut after exactly one sample.
C13_BackoffSchedule ==
  /\ C13_BackoffAndShortTimeout
  /\ poll.now >= SumBackoff(Sleeps)
  /\ poll.now <= SumBackoff(Sleeps) + Sleeps * MaxOvershoot
  /\ poll.pc = "done" /\ poll.ret.code = "TimedOut" =>
       poll.timeout <= poll.now /\ poll.observed # OK
  /\ poll.pc = "done" /\ poll.ret.code = "TimedOut" /\ poll.now = SumBackoff(Sleeps) =>
       poll.timeout <= SumBackoff(poll.samples)
  /\ poll.pc = "done" /\ poll.ret = OK => poll.observed = OK

\* Three samples failed, the sleeps took 1 + 2 + 4 = 7 and no longer, and under
\* a timeout of 8 the fourth sample succeeded: the wait returned OK.
C13_Witness ==
  /\ poll.pc = "done" /\ poll.ret = OK /\ poll.samples = 4
  /\ poll.timeout = 8 /\ poll.now = 7 /\ poll.backoff_ms = 8

\* C14: a wait that has returned TimedOut returns a status whose context (the
\* second message of Status::TimedOut) is the failure status the last sample
\* observed.
C14_TimedOutCarriesLastFailure ==
  poll.pc = "done" /\ poll.ret.code = "TimedOut" =>
    /\ poll.observed # OK
    /\ poll.ret.msg[2] = StatusToString(poll.observed)

\* C15: once StartAsync has submitted the init task, init_status_ is eventually
\* set, and every caller blocked in WaitForCatalogManagerInit eventually returns
\* with it -- as long as the process lives: a failed CHECK ends the process and
\* every thread in it.
C15_WaitersReturn ==
  /\ (task # "none") ~> (init_status_ # NoStatus \/ aborted # "no")
  /\ \A w \in Waiters :
       (w_pc[w] = "blocked") ~>
         ((w_pc[w] = "returned" /\ w_ret[w] = init_status_) \/ aborted # "no")

\* catalog_manager_->Init has failed, the promise was set once, and both
\* callers of WaitForCatalogManagerInit have returned with that status.
C15_Witness ==
  /\ aborted = "no" /\ task = "done" /\ init_sets = 1
  /\ \A w \in Waiters : w_pc[w] = "returned" /\ w_ret[w] = init_status_
  /\ init_status_.code = "Corruption"

\* C16: whenever Shutdown calls catalog_manager_->Shutdown, the init task that
\* StartAsync submitted has finished and init_status_ is set.
C16_ShutdownAfterInitTask ==
  [][teardown'.catalog # teardown.catalog =>
       task = "done" /\ init_status_ # NoStatus]_vars

\* C17: in every reachable state, if state_ is kRunning or the init task has
\* been submitted then registration_initialized_ is set and registration_ is
\* the registration that was built; hence a single-node ListMasters call made
\* while state_ is kRunning -- which returns what its GetMasterRegistration
\* call returns -- never returns ServiceUnavailable.
C17_RunningImpliesRegistered ==
  /\ [](state_ = kRunning \/ task # "none" =>
          registration_initialized_ /\ registration_ = built)
  /\ [][\A prior \in {<<>>, <<PriorEntry>>} :
          ListMasters(prior, <<>>) /\ state_ = kRunning =>
            lm'.status = OK /\ lm'.masters # prior]_vars

\* The node is running, its init task is still queued, and ListMasters has
\* answered with the local entry.
C17_Witness ==
  /\ state_ = kRunning /\ task = "queued" /\ registration_initialized_
  /\ lm.status = OK /\ Len(lm.masters) = 1 /\ lm.masters[1].registration = registration_

\* C18: after a StartAsync that returned a failure, whichever sub-step failed,
\* state_ is kInitialized and registration_initialized_ is unset, so that a
\* second StartAsync passes both of its CHECKs.
C18_FailedStartAsyncRetriable ==
  pc = "idle" /\ aborted = "no" /\ last.inner = "StartAsync" /\ last.status # OK =>
    state_ = kInitialized /\ ~registration_initialized_

\* The RPC to address i met a transport failure: the peer reported no identity.
Unreachable(i) == lm.outs[i].kind \in {"resolve_fail", "rpc_fail"}

\* C19: in multi-node mode, when the peers that reported an identity reported
\* pairwise distinct ones, ListMasters appends one entry per configured
\* address, and every unreachable peer has an entry of its own, carrying an
\* error that names its address and no registration.
C19_EveryUnreachablePeerListed ==
  /\ lm.status # NoStatus
  /\ \A i, j \in DOMAIN lm.outs :
       i # j /\ ~Unreachable(i) /\ ~Unreachable(j) => lm.outs[i].uuid # lm.outs[j].uuid
  =>
  /\ Len(lm.masters) = Len(lm.prior) + Len(lm.outs)
  /\ \A i \in DOMAIN lm.outs :
       Unreachable(i) =>
         \E e \in Appended :
           /\ e.has_error /\ ~e.has_registration
           /\ e.error.msg[1] =
                "Unable to get registration information for peer (" \o Addr(i) \o ")"

\* The wait has just taken a sample: it is about to sleep, or has returned OK.
\* poll.now is then the time that sample was taken at.
JustSampled == poll.pc = "sleep" \/ (poll.pc = "done" /\ poll.ret = OK)

\* C20 as the claim states it: every sample is taken at a time before the
\* deadline, so the wait returns OK only on such a sample, and with a timeout
\* of zero it returns TimedOut having taken no sample.
C20_AsStated ==
  /\ JustSampled => poll.now < poll.timeout
  /\ poll.pc = "done" /\ poll.timeout = 0 =>
       poll.ret.code = "TimedOut" /\ poll.samples = 0

\* C20, amended: the first sample is taken at the start, whatever the timeout;
\* every later sample is taken only when the loop condition, evaluated after
\* the sleep before it, read a time before the deadline, so the wait returns OK
\* on a second or later sample only if it was taken before the deadline; with a
\* timeout of zero the wait takes exactly one sample and returns OK if it
\* succeeded and TimedOut if it failed.
C20_SamplesAfterFirstBeforeDeadline ==
  /\ poll.pc \in {"sleep", "test", "done"} => poll.samples >= 1
  /\ JustSampled /\ poll.samples = 1 => poll.now = 0
  /\ JustSampled /\ poll.samples > 1 => poll.now < poll.timeout
  /\ poll.pc = "done" /\ poll.timeout = 0 =>
       /\ poll.samples = 1
       /\ poll.ret = OK <=> poll.observed = OK
       /\ poll.ret.code = "TimedOut" <=> poll.observed # OK

\* Called with a timeout of zero, the wait has sampled once, found the catalog
\* manager the leader and ready, and returned OK.
C20_Witness ==
  poll.pc = "done" /\ poll.timeout = 0 /\ poll.samples = 1 /\ poll.ret = OK

====
